---------------------------- MODULE Spec2Model ----------------------------
(***************************************************************************)
(* Sheets -> Shopify product sync (src/script.js).                         *)
(*                                                                         *)
(* The sheet is a sequence of rows (row 1 = headers).  A row holds its     *)
(* product-data cells and the cell of the status column                    *)
(* (CONFIG.TIMESTAMP_COLUMN), which lies to the right of the data columns. *)
(* Script properties hold the watermark lastProcessedRow as a string.      *)
(* checkForNewProducts is modelled step by step (read, compare, one step   *)
(* per row, advance) so that edits of the sheet interleave with a pass.    *)
(***************************************************************************)
EXTENDS Integers, Sequences, FiniteSets

VARIABLES
    sheet,        \* the active sheet: Seq of [cells, status]
    properties,   \* script properties: [lastProcessedRow |-> value]
    inv,          \* invocations of checkForNewProducts, one record per slot
    covered,      \* history: the highest row index a completed pass has covered since the last resetTracking
    historical,   \* history: rows 1..historical were in the sheet when tracking began
    tally,        \* history: per row, the remote creates that succeeded and the outcomes written
                  \* (<<>> in the specifications that keep no such history)
    mapIn,        \* mapRowToProduct called alone: the columns <<header, value>> handed to it
    mapOut,       \* mapRowToProduct called alone: [done, product]
    request,      \* createShopifyProduct called alone: what the HTTP exchange does
    response      \* createShopifyProduct called alone: [done, result]

calls == <<mapIn, mapOut, request, response>>
vars == <<sheet, properties, inv, covered, historical, tally, mapIn, mapOut, request, response>>

(***************************************************************************)
(* Bounds                                                                  *)
(***************************************************************************)
MaxRows == 3      \* rows of the sheet, header row included
MaxCols == 2      \* columns handed to mapRowToProduct when it is called alone
MaxCount == 2     \* the counters of tally stop here

(***************************************************************************)
(* JavaScript values: strings, numbers (n / 10^e), booleans, undefined, NaN *)
(***************************************************************************)
Str(s)  == [t |-> "str",   s |-> s,  n |-> 0, e |-> 0]
Dec(n, e) == [t |-> "num", s |-> "", n |-> n, e |-> e]
Num(n)  == Dec(n, 0)
Bool(b) == [t |-> "bool",  s |-> "", n |-> IF b THEN 1 ELSE 0, e |-> 0]
Undef   == [t |-> "undef", s |-> "", n |-> 0, e |-> 0]
NaN     == [t |-> "nan",   s |-> "", n |-> 0, e |-> 0]
Empty   == Str("")

\* ToBoolean: "", 0, NaN, false, undefined are falsy
Truthy(v) ==
    CASE v.t = "str"  -> v.s # ""
      [] v.t = "num"  -> v.n # 0
      [] v.t = "bool" -> v.n = 1
      [] OTHER        -> FALSE

CharAt(s, i) == SubSeq(s, i, i)

Digits == "0123456789"
DigitSet == {CharAt(Digits, i) : i \in 1..Len(Digits)}
DigitOf == [c \in DigitSet |-> (CHOOSE i \in 1..Len(Digits) : CharAt(Digits, i) = c) - 1]
IsDigit(c) == c \in DigitSet
DigitVal(c) == DigitOf[c]

RECURSIVE NatToString(_)
NatToString(n) ==
    IF n < 10 THEN CharAt(Digits, n + 1)
    ELSE NatToString(n \div 10) \o CharAt(Digits, (n % 10) + 1)

RECURSIVE Pow10(_)
Pow10(e) == IF e = 0 THEN 1 ELSE 10 * Pow10(e - 1)

RECURSIVE PadFrac(_, _)
\* the e fraction digits of f, zero-padded on the left
PadFrac(f, e) == IF e = 0 THEN "" ELSE PadFrac(f \div 10, e - 1) \o CharAt(Digits, (f % 10) + 1)

\* Number.prototype.toString for a decimal n / 10^e (kept normalised: no trailing fraction zero)
NumToString(n, e) ==
    LET a == IF n < 0 THEN 0 - n ELSE n
        sign == IF n < 0 THEN "-" ELSE ""
    IN  IF e = 0 THEN sign \o NatToString(a)
        ELSE sign \o NatToString(a \div Pow10(e)) \o "." \o PadFrac(a % Pow10(e), e)

\* String(v) / v.toString()
ToString(v) ==
    CASE v.t = "str"  -> v.s
      [] v.t = "num"  -> NumToString(v.n, v.e)
      [] v.t = "bool" -> IF v.n = 1 THEN "true" ELSE "false"
      [] v.t = "nan"  -> "NaN"
      [] OTHER        -> "undefined"

UpperChars == "ABCDEFGHIJKLMNOPQRSTUVWXYZ"
LowerChars == "abcdefghijklmnopqrstuvwxyz"
UpperSet == {CharAt(UpperChars, i) : i \in 1..Len(UpperChars)}
LowerOf == [c \in UpperSet |->
              CharAt(LowerChars, CHOOSE i \in 1..Len(UpperChars) : CharAt(UpperChars, i) = c)]
LowerChar(c) == IF c \in UpperSet THEN LowerOf[c] ELSE c

RECURSIVE LowerFrom(_, _)
\* the characters of s from position i on, in lower case
LowerFrom(s, i) ==
    IF i > Len(s) THEN "" ELSE LowerChar(CharAt(s, i)) \o LowerFrom(s, i + 1)

ToLowerCase(s) == LowerFrom(s, 1)

IsSpace(c) == c \in {" ", "\t", "\n"}

RECURSIVE SpacesFrom(_, _)
\* the number of white-space characters of s at positions i, i + 1, ...
SpacesFrom(s, i) ==
    IF i <= Len(s) /\ IsSpace(CharAt(s, i)) THEN 1 + SpacesFrom(s, i + 1) ELSE 0

RECURSIVE SpacesBefore(_, _)
\* the number of white-space characters of s at positions i, i - 1, ...
SpacesBefore(s, i) ==
    IF i >= 1 /\ IsSpace(CharAt(s, i)) THEN 1 + SpacesBefore(s, i - 1) ELSE 0

TrimStart(s) == SubSeq(s, SpacesFrom(s, 1) + 1, Len(s))

TrimEnd(s) == SubSeq(s, 1, Len(s) - SpacesBefore(s, Len(s)))

Trim(s) == TrimEnd(TrimStart(s))

RECURSIVE Join(_)
\* Array.prototype.join(''): undefined elements give '', the others their string
Join(a) ==
    IF a = <<>> THEN ""
    ELSE (IF Head(a).t = "undef" THEN "" ELSE ToString(Head(a))) \o Join(Tail(a))

RECURSIVE DigitsFrom(_, _)
\* the number of digits of s at positions i, i + 1, ...
DigitsFrom(s, i) ==
    IF i <= Len(s) /\ IsDigit(CharAt(s, i)) THEN 1 + DigitsFrom(s, i + 1) ELSE 0

LeadingDigits(s) == DigitsFrom(s, 1)

RECURSIVE DigitsUpTo(_, _)
\* the number the first i characters of s, all digits, write
DigitsUpTo(s, i) ==
    IF i = 0 THEN 0 ELSE 10 * DigitsUpTo(s, i - 1) + DigitVal(CharAt(s, i))

DigitsToNat(s) == DigitsUpTo(s, Len(s))

RECURSIVE Normalise(_, _)
Normalise(n, e) == IF e > 0 /\ n % 10 = 0 THEN Normalise(n \div 10, e - 1) ELSE Dec(n, e)

\* parseInt(v): leading whitespace, a sign, then the longest run of decimal digits
\* (radix prefixes such as 0x are outside the modelled vocabulary)
ParseInt(v) ==
    LET t == TrimStart(ToString(v))
        signed == t # "" /\ CharAt(t, 1) \in {"-", "+"}
        u == IF signed THEN SubSeq(t, 2, Len(t)) ELSE t
        k == LeadingDigits(u)
        m == DigitsToNat(SubSeq(u, 1, k))
    IN  IF k = 0 THEN NaN
        ELSE Num(IF t # "" /\ CharAt(t, 1) = "-" THEN 0 - m ELSE m)

\* parseFloat(v): as parseInt, plus an optional fraction (exponents and
\* Infinity are outside the modelled vocabulary)
ParseFloat(v) ==
    LET t == TrimStart(ToString(v))
        signed == t # "" /\ CharAt(t, 1) \in {"-", "+"}
        u == IF signed THEN SubSeq(t, 2, Len(t)) ELSE t
        k == LeadingDigits(u)
        rest == SubSeq(u, k + 1, Len(u))
        f == IF rest # "" /\ CharAt(rest, 1) = "." THEN LeadingDigits(SubSeq(rest, 2, Len(rest))) ELSE 0
        m == DigitsToNat(SubSeq(u, 1, k)) * Pow10(f) + DigitsToNat(SubSeq(rest, 2, f + 1))
    IN  IF k = 0 /\ f = 0 THEN NaN
        ELSE Normalise(IF t # "" /\ CharAt(t, 1) = "-" THEN 0 - m ELSE m, f)

OrZeroKeepsNaN(x) == x

\* x || 0 for a number x
OrZero(x) == IF Truthy(x) THEN x ELSE Num(0)

(***************************************************************************)
(* Field mapper: mapRowToProduct                                           *)
(***************************************************************************)
EmptyVariant ==
    [sku |-> Undef, barcode |-> Undef, price |-> Undef, compare_at_price |-> Undef,
     cost |-> Undef, inventory_quantity |-> Undef, weight |-> Undef,
     weight_unit |-> Undef, option1 |-> Undef, option2 |-> Undef]

\* const product = { variants: [{}] }; an absent options / images array is <<>>
EmptyProduct ==
    [title |-> Undef, body_html |-> Undef, vendor |-> Undef, product_type |-> Undef,
     tags |-> Undef, published |-> Undef, variant |-> EmptyVariant,
     options |-> <<>>, images |-> <<>>]

\* if (!value && value !== 0) return;
SkipsValue(value) == ~Truthy(value) /\ ~(value.t = "num" /\ value.n = 0)

\* header.toString().toLowerCase().trim()
HeaderLower(header) == Trim(ToLowerCase(ToString(header)))

\* value === true || value === 'true' || value === 'yes' || value === 'published'
PublishedValue(value) ==
    Bool(value = Bool(TRUE) \/ value = Str("true") \/ value = Str("yes") \/ value = Str("published"))

\* case 'option1' / 'size': seed the options array on first occurrence only
Option1Options(options, value) ==
    IF options = <<>>
    THEN <<[name |-> "Size", values |-> <<ToString(value)>>]>>
    ELSE options

Option2NoPlaceholder(options, value) ==
    IF Len(options) < 2
    THEN Append(options, [name |-> "Color", values |-> <<ToString(value)>>])
    ELSE options

\* case 'option2' / 'color': placeholder Size group, then push while fewer than 2 groups
Option2Options(options, value) ==
    LET seeded == IF options = <<>>
                  THEN <<[name |-> "Size", values |-> <<"Default">>]>>
                  ELSE options
    IN  IF Len(seeded) < 2
        THEN Append(seeded, [name |-> "Color", values |-> <<ToString(value)>>])
        ELSE seeded

\* case 'image': if (value && value.toString().trim()) product.images = [{src: ...}]
ImageImages(images, value) ==
    IF Truthy(value) /\ Trim(ToString(value)) # ""
    THEN <<[src |-> Trim(ToString(value))]>>
    ELSE images

\* the switch (headerLower) of the forEach callback
MapField(product, h, value) ==
    CASE h \in {"title", "product name", "name"} ->
            [product EXCEPT !.title = value]
      [] h \in {"description", "body", "body_html"} ->
            [product EXCEPT !.body_html = value]
      [] h \in {"vendor", "brand", "manufacturer"} ->
            [product EXCEPT !.vendor = value]
      [] h \in {"product type", "type", "category"} ->
            [product EXCEPT !.product_type = value]
      [] h \in {"tags", "keywords"} ->
            [product EXCEPT !.tags = value]
      [] h \in {"published", "status"} ->
            [product EXCEPT !.published = PublishedValue(value)]
      [] h \in {"sku", "product code"} ->
            [product EXCEPT !.variant.sku = Str(ToString(value))]
      [] h \in {"barcode", "upc", "ean", "isbn", "gtin"} ->
            [product EXCEPT !.variant.barcode = Str(ToString(value))]
      [] h \in {"price", "retail price"} ->
            [product EXCEPT !.variant.price = Str(ToString(value))]
      [] h \in {"compare at price", "compare price", "msrp"} ->
            [product EXCEPT !.variant.compare_at_price = Str(ToString(value))]
      [] h \in {"cost", "cost price"} ->
            [product EXCEPT !.variant.cost = Str(ToString(value))]
      [] h \in {"inventory", "quantity", "stock"} ->
            [product EXCEPT !.variant.inventory_quantity = OrZero(ParseInt(value))]
      [] h = "weight" ->
            [product EXCEPT !.variant.weight = OrZero(ParseFloat(value))]
      [] h = "weight unit" ->
            [product EXCEPT !.variant.weight_unit = value]
      [] h \in {"option1", "size"} ->
            [product EXCEPT !.variant.option1 = Str(ToString(value)),
                            !.options = Option1Options(@, value)]
      [] h \in {"option2", "color"} ->
            [product EXCEPT !.variant.option2 = Str(ToString(value)),
                            !.options = Option2Options(@, value)]
      [] h \in {"image", "image url", "product image"} ->
            [product EXCEPT !.images = ImageImages(@, value)]
      [] OTHER -> product

\* one call of the forEach callback: (header, index) => { ... }
MapColumn(product, header, value) ==
    IF SkipsValue(value) THEN product
    ELSE \* line 136: headerLower is computed once, then switched on
         CHOOSE q \in {MapField(product, headerLower, value) :
                          headerLower \in {HeaderLower(header)}} : TRUE

\* rowData[index]: undefined past the end of the row
CellAt(rowData, i) == IF i <= Len(rowData) THEN rowData[i] ELSE Undef

RECURSIVE MapColumns(_, _, _)
\* the product after the forEach callback ran for columns 1..k
MapColumns(headers, rowData, k) ==
    IF k = 0 THEN EmptyProduct
    ELSE MapColumn(MapColumns(headers, rowData, k - 1), headers[k], CellAt(rowData, k))

RECURSIVE MapColumnsFrom(_, _, _)
\* the columns applied from the last to the first: the first column wins
MapColumnsFrom(headers, rowData, k) ==
    IF k > Len(headers) THEN EmptyProduct
    ELSE MapColumn(MapColumnsFrom(headers, rowData, k + 1), headers[k], CellAt(rowData, k))

mapRowToProductReversed(headers, rowData) == MapColumnsFrom(headers, rowData, 1)

mapRowToProduct(headers, rowData) == MapColumns(headers, rowData, Len(headers))

isValidProductDefined(product) == product.title # Undef

\* return !!product.title;
isValidProduct(product) == Truthy(product.title)

(***************************************************************************)
(* Catalog client: createShopifyProduct                                    *)
(*                                                                         *)
(* http is what UrlFetchApp.fetch and JSON.parse do for this request:      *)
(* [throws, code, parses, product, id, text].                              *)
(***************************************************************************)
HttpChoices ==
    { [throws |-> FALSE, code |-> 201, parses |-> TRUE,  product |-> TRUE,  id |-> 7, text |-> "{product:{id:7}}"],
      [throws |-> FALSE, code |-> 422, parses |-> TRUE,  product |-> FALSE, id |-> 0, text |-> "{errors:{title:[can't be blank]}}"],
      [throws |-> TRUE,  code |-> 0,   parses |-> FALSE, product |-> FALSE, id |-> 0, text |-> ""] }

\* no HTTP exchange
NoRequest == [throws |-> TRUE, code |-> 0, parses |-> FALSE, product |-> FALSE, id |-> 0, text |-> ""]

FetchError == "Exception: Request failed"
ParseError == "SyntaxError: Unexpected token < in JSON"

IsSuccessNoUpperBound(code, hasProduct) == code >= 200 /\ hasProduct

\* responseCode >= 200 && responseCode < 300 && responseBody.product
IsSuccessResponse(code, hasProduct) == code >= 200 /\ code < 300 /\ hasProduct

\* one fetch; every exception is caught and returned as a failure value
createShopifyProduct(product, http) ==
    IF http.throws THEN [success |-> FALSE, id |-> 0, error |-> FetchError]
    ELSE IF ~http.parses THEN [success |-> FALSE, id |-> 0, error |-> ParseError]
    ELSE IF IsSuccessResponse(http.code, http.product)
         THEN [success |-> TRUE, id |-> http.id, error |-> ""]
         ELSE [success |-> FALSE, id |-> 0,
               error |-> "API Error (" \o NatToString(http.code) \o "): " \o http.text]

(***************************************************************************)
(* The sheet                                                               *)
(***************************************************************************)
HeaderChoices ==
    { <<Str("Title"), Str("Barcode")>>,
      <<Str("SKU"), Str("Barcode")>> }

\* rows a user types below the headers; << " ", "" >> has content but trims to ''
RowChoices ==
    { <<Str("Widget"), Str("012345")>>,
      <<Empty, Str("012345")>>,
      <<Num(0), Str("012345")>>,
      <<Str(" "), Empty>> }

Width(sh) == IF sh = <<>> THEN 0 ELSE Len(sh[1].cells)
BlankRow(sh) == [cells |-> [i \in 1..Width(sh) |-> Empty], status |-> Empty]

HasContent(row) == row.status # Empty \/ \E i \in 1..Len(row.cells) : row.cells[i] # Empty

\* sheet.getLastRow(): the last row that has content, 0 on an empty sheet
getLastDataRow(sh) ==
    IF \E i \in 1..Len(sh) : HasContent(sh[i])
    THEN CHOOSE i \in 1..Len(sh) : HasContent(sh[i]) /\ \A j \in (i + 1)..Len(sh) : ~HasContent(sh[j])
    ELSE 0

\* the cells of a row as getValues returns them: data columns, then the status column
RowValues(row) == row.cells \o <<row.status>>

\* sheet.getDataRange().getValues(): rows 1..lastRow; a single empty cell on an empty sheet
GetValues(sh) ==
    IF getLastDataRow(sh) = 0 THEN << <<Empty>> >>
    ELSE [i \in 1..getLastDataRow(sh) |-> RowValues(sh[i])]

RECURSIVE PadTo(_, _)
PadTo(sh, n) == IF Len(sh) >= n THEN sh ELSE PadTo(Append(sh, BlankRow(sh)), n)

updateSyncStatusNextRow(sh, rowNum, status) ==
    [PadTo(sh, rowNum + 1) EXCEPT ![rowNum + 1].status = Str(status)]

\* sheet.getRange(CONFIG.TIMESTAMP_COLUMN + rowNum).setValue(status)
updateSyncStatus(sh, rowNum, status) ==
    [PadTo(sh, rowNum) EXCEPT ![rowNum].status = Str(status)]

(***************************************************************************)
(* Sync tracker                                                            *)
(***************************************************************************)
\* parseInt(properties.getProperty('lastProcessedRow') || '0')
ReadWatermark(props) ==
    LET stored == props.lastProcessedRow
    IN  ParseInt(IF Truthy(stored) THEN stored ELSE Str("0")).n

NoWatermarkAlways(props) == TRUE

\* !properties.getProperty('lastProcessedRow')
NoWatermark(props) == ~Truthy(props.lastProcessedRow)

\* properties.setProperty('lastProcessedRow', n.toString())
SetWatermark(props, n) == [props EXCEPT !.lastProcessedRow = Str(ToString(Num(n)))]

(***************************************************************************)
(* Sync loop: checkForNewProducts                                          *)
(***************************************************************************)
Procs == {1, 2}

\* no row attempted yet
NoAttempt ==
    [row |-> 0, hist |-> FALSE, empty |-> FALSE, valid |-> FALSE, called |-> FALSE,
     http |-> NoRequest, success |-> FALSE, writes |-> <<>>, stored |-> <<>>, aborted |-> FALSE]

\* rows: the row indices attempted so far, in order; last: the latest attempt
IdleInv ==
    [pc |-> "idle", lastProcessedRow |-> 0, data |-> <<>>, currentLastRow |-> 0,
     rowIndex |-> 0, rows |-> <<>>, last |-> NoAttempt]

Running(p) == inv[p].pc # "idle"
NoneRunning == \A p \in Procs : ~Running(p)

HasNewRowsAlways(currentLastRow, lastProcessedRow) == TRUE

\* currentLastRow > lastProcessedRow
HasNewRows(currentLastRow, lastProcessedRow) == currentLastRow > lastProcessedRow

StartRowAtWatermark(lastProcessedRow) == lastProcessedRow
StartRowBelowHeader(lastProcessedRow) == 2
StartRowSkipsOne(lastProcessedRow) == lastProcessedRow + 2

\* let rowIndex = lastProcessedRow + 1
StartRow(lastProcessedRow) == lastProcessedRow + 1

IsEmptyRowNoTrim(rowData) == Join(rowData) = ""
IsEmptyRowAlways(rowData) == TRUE

\* rowData.join('').trim() === ''
IsEmptyRow(rowData) == Trim(Join(rowData)) = ""

NewWatermarkStale(i) == i.lastProcessedRow
NewWatermarkRowIndex(i) == i.rowIndex

\* the value line 111 stores
NewWatermark(i) == i.currentLastRow

InvalidMessage(rowIndex) ==
    "Row " \o NatToString(rowIndex) \o ": Invalid product data (missing required fields)"

\* new Date().toLocaleString()
Now == "11/4/2026, 8:00:00 PM"
\* what a failing setValue raises, as error.toString() gives it
WriteError == "Exception: Service Spreadsheets failed"

\* the status text the try block hands to updateSyncStatus for a non-empty row
TryStatus(product, created, rowIndex) ==
    IF ~isValidProduct(product) THEN "ERROR: " \o InvalidMessage(rowIndex)
    ELSE IF created.success
         THEN "Synced: " \o Now \o " (ID: " \o NatToString(created.id) \o ")"
         ELSE "ERROR: " \o created.error

\* the status text the catch handler hands to updateSyncStatus
CatchStatus == "ERROR: " \o WriteError

IsSynced(status) == Len(status) >= 8 /\ SubSeq(status, 1, 8) = "Synced: "
IsError(status)  == Len(status) >= 7 /\ SubSeq(status, 1, 7) = "ERROR: "

\* One iteration of the for loop on a row of the snapshot (lines 72-107).
\* fail1 / fail2: the setValue of the try block / of the catch handler raises.
\* writes: the updateSyncStatus calls issued; stored: those that reached the sheet.
Outcome(product, rowIndex, hist, http, fail1, fail2) ==
    LET valid == isValidProduct(product)
        created == IF valid THEN createShopifyProduct(product, http)
                   ELSE [success |-> FALSE, id |-> 0, error |-> ""]
        first == TryStatus(product, created, rowIndex)
    IN  [row |-> rowIndex, hist |-> hist, empty |-> FALSE, valid |-> valid, called |-> valid,
         http |-> IF valid THEN http ELSE NoRequest,
         success |-> created.success,
         writes |-> IF fail1 THEN <<first, CatchStatus>> ELSE <<first>>,
         stored |-> IF ~fail1 THEN <<first>> ELSE IF ~fail2 THEN <<CatchStatus>> ELSE <<>>,
         aborted |-> fail1 /\ fail2]

Attempt(headers, rowData, rowIndex, hist, http, fail1, fail2) ==
    IF IsEmptyRow(rowData)
    THEN [NoAttempt EXCEPT !.row = rowIndex, !.hist = hist, !.empty = TRUE]
    ELSE \* line 81: const product = mapRowToProduct(headers, rowData)
         CHOOSE o \in {Outcome(product, rowIndex, hist, http, fail1, fail2) :
                          product \in {mapRowToProduct(headers, rowData)}} : TRUE

\* the invocation has ended (pc: "done", or "aborted" by an uncaught exception):
\* the snapshot is dropped, what the pass did stays visible until it returns
Ended(i, pc) == [i EXCEPT !.pc = pc, !.data = <<>>]

\* lines 52-61: read the watermark and the whole table
BeginPass(p) ==
    /\ inv[p].pc = "idle"
    /\ inv' = [inv EXCEPT ![p] = [IdleInv EXCEPT !.pc = "read",
                                                 !.lastProcessedRow = ReadWatermark(properties),
                                                 !.data = GetValues(sheet)]]
    /\ UNCHANGED <<sheet, properties, covered, historical, tally, calls>>

\* lines 57-58 raise (the table cannot be read): the invocation ends there
ReadFails(p) ==
    /\ inv[p].pc = "idle"
    /\ inv' = [inv EXCEPT ![p] = [IdleInv EXCEPT !.pc = "aborted",
                                                 !.lastProcessedRow = ReadWatermark(properties)]]
    /\ UNCHANGED <<sheet, properties, covered, historical, tally, calls>>

\* lines 64-71 and 112-114: read the last row, enter the loop or log 'No new rows'
ReadLastRow(p) ==
    /\ inv[p].pc = "read"
    /\ LET cur == getLastDataRow(sheet)
           i == [inv[p] EXCEPT !.currentLastRow = cur,
                               !.rowIndex = StartRow(inv[p].lastProcessedRow)]
       IN  inv' = [inv EXCEPT ![p] = IF HasNewRows(cur, i.lastProcessedRow)
                                     THEN [i EXCEPT !.pc = "loop"]
                                     ELSE Ended(i, "done")]
    /\ UNCHANGED <<sheet, properties, covered, historical, tally, calls>>

\* one more, up to MaxCount
Bump(n) == IF n < MaxCount THEN n + 1 ELSE n

\* the attempt a on row r added to the tally
Counted(t, r, a) ==
    IF t = <<>> THEN t
    ELSE
    [t EXCEPT ![r] = [creates |-> IF a.success THEN Bump(@.creates) ELSE @.creates,
                      writes  |-> IF a.stored # <<>> THEN Bump(@.writes) ELSE @.writes]]

\* lines 71-108: one row of the range
ProcessRow(p, http, fail1, fail2) ==
    /\ inv[p].pc = "loop"
    /\ inv[p].rowIndex <= inv[p].currentLastRow
    /\ LET i == inv[p]
           r == i.rowIndex
       IN  IF r < 1 \/ r > Len(i.data)
           THEN \* data[rowIndex - 1] is undefined: rowData.join raises outside the try
                /\ inv' = [inv EXCEPT ![p] = Ended(i, "aborted")]
                /\ sheet' = sheet
                /\ tally' = tally
           ELSE \E a \in {Attempt(i.data[1], i.data[r], r,
                                  r <= historical, http, fail1, fail2)} :
                    /\ sheet' = IF a.stored = <<>> THEN sheet
                                ELSE updateSyncStatus(sheet, r, a.stored[1])
                    /\ inv' = [inv EXCEPT ![p] =
                                  LET j == [i EXCEPT !.rows = Append(@, r), !.last = a]
                                  IN  IF a.aborted THEN Ended(j, "aborted")
                                      ELSE [j EXCEPT !.rowIndex = @ + 1]]
                    /\ tally' = Counted(tally, r, a)
    /\ UNCHANGED <<properties, covered, historical, calls>>

\* line 111, after the loop
AdvanceWatermark(p) ==
    /\ inv[p].pc = "loop"
    /\ inv[p].rowIndex > inv[p].currentLastRow
    /\ properties' = SetWatermark(properties, NewWatermark(inv[p]))
    /\ inv' = [inv EXCEPT ![p] = Ended(inv[p], "done")]
    /\ covered' = IF inv[p].currentLastRow > covered THEN inv[p].currentLastRow ELSE covered
    /\ UNCHANGED <<sheet, historical, tally, calls>>

\* the invocation returns (normally or by the uncaught exception); its locals are gone
Return(p) ==
    /\ inv[p].pc \in {"done", "aborted"}
    /\ inv' = [inv EXCEPT ![p] = IdleInv]
    /\ UNCHANGED <<sheet, properties, covered, historical, tally, calls>>

(***************************************************************************)
(* initializeTracking (run by setup) and resetTracking                     *)
(***************************************************************************)
initializeTracking ==
    /\ IF NoWatermark(properties)
       THEN /\ properties' = SetWatermark(properties, getLastDataRow(sheet))
            /\ historical' = Len(sheet)
       ELSE UNCHANGED <<properties, historical>>
    /\ UNCHANGED <<sheet, inv, covered, tally, calls>>

resetTracking ==
    /\ properties' = SetWatermark(properties, getLastDataRow(sheet))
    /\ covered' = 0
    /\ UNCHANGED <<sheet, inv, historical, tally, calls>>

(***************************************************************************)
(* The user editing the sheet                                              *)
(***************************************************************************)
\* type a row below the last one: the headers first, then data rows
AppendRow(cells) ==
    /\ Len(sheet) < MaxRows
    /\ cells \in (IF sheet = <<>> THEN HeaderChoices ELSE RowChoices)
    /\ sheet' = Append(sheet, [cells |-> cells, status |-> Empty])
    /\ UNCHANGED <<properties, inv, covered, historical, tally, calls>>

NoCount == [creates |-> 0, writes |-> 0]
NoTally == [r \in 1..MaxRows |-> NoCount]

\* delete the last row; blank rows left at the end are not rows of the sheet
DeleteLastRow ==
    /\ sheet # <<>>
    /\ LET rest == SubSeq(sheet, 1, Len(sheet) - 1)
       IN  /\ sheet' = SubSeq(rest, 1, getLastDataRow(rest))
           /\ historical' = IF historical > getLastDataRow(rest) THEN getLastDataRow(rest) ELSE historical
           /\ tally' = IF tally = <<>> THEN tally
                       ELSE [r \in 1..MaxRows |-> IF r > getLastDataRow(rest) THEN NoCount ELSE tally[r]]
    /\ UNCHANGED <<properties, inv, covered, calls>>

(***************************************************************************)
(* Specification: invocations one at a time, the user appending rows at    *)
(* any moment and deleting rows between invocations                        *)
(***************************************************************************)
NoMapIn == <<>>
NoMapOut == [done |-> FALSE, product |-> EmptyProduct]
NoResponse == [done |-> FALSE, result |-> [success |-> FALSE, id |-> 0, error |-> ""]]

Init ==
    /\ sheet = <<>>
    /\ properties = [lastProcessedRow |-> Undef]
    /\ inv = [p \in Procs |-> IdleInv]
    /\ covered = 0
    /\ historical = 0
    /\ tally = <<>>
    /\ mapIn = NoMapIn
    /\ mapOut = NoMapOut
    /\ request = NoRequest
    /\ response = NoResponse

Next ==
    \/ \E cells \in HeaderChoices \cup RowChoices : AppendRow(cells)
    \/ NoneRunning /\ DeleteLastRow
    \/ NoneRunning /\ initializeTracking
    \/ NoneRunning /\ resetTracking
    \/ NoneRunning /\ BeginPass(1)
    \/ NoneRunning /\ ReadFails(1)
    \/ ReadLastRow(1)
    \/ \E http \in HttpChoices, fail1 \in BOOLEAN, fail2 \in BOOLEAN : ProcessRow(1, http, fail1, fail2)
    \/ AdvanceWatermark(1)
    \/ Return(1)

Spec == Init /\ [][Next]_vars

(***************************************************************************)
(* An append-only sheet with the history of creates and writes kept:       *)
(* invocations one at a time, every exception included                     *)
(***************************************************************************)
InitTally ==
    /\ sheet = <<>>
    /\ properties = [lastProcessedRow |-> Undef]
    /\ inv = [p \in Procs |-> IdleInv]
    /\ covered = 0
    /\ historical = 0
    /\ tally = NoTally
    /\ mapIn = NoMapIn
    /\ mapOut = NoMapOut
    /\ request = NoRequest
    /\ response = NoResponse

NextAbort ==
    \/ \E cells \in HeaderChoices \cup RowChoices : AppendRow(cells)
    \/ NoneRunning /\ initializeTracking
    \/ NoneRunning /\ BeginPass(1)
    \/ NoneRunning /\ ReadFails(1)
    \/ ReadLastRow(1)
    \/ \E http \in HttpChoices, fail1 \in BOOLEAN, fail2 \in BOOLEAN : ProcessRow(1, http, fail1, fail2)
    \/ AdvanceWatermark(1)
    \/ Return(1)

SpecAbort == InitTally /\ [][NextAbort]_vars

(***************************************************************************)
(* Two invocations that may overlap (the trigger fires while an earlier    *)
(* invocation still runs), on an append-only sheet, outcome writes         *)
(* succeeding                                                              *)
(***************************************************************************)
\* one header row, one kind of data row; the create succeeds or is refused
OverlapCells == { <<Str("Title"), Str("Barcode")>>, <<Str("Widget"), Str("012345")>> }
OverlapHttp == {h \in HttpChoices : ~h.throws}

NextOverlap ==
    \/ \E cells \in OverlapCells : AppendRow(cells)
    \/ NoneRunning /\ initializeTracking
    \/ \E p \in Procs : BeginPass(p)
    \/ \E p \in Procs : ReadLastRow(p)
    \/ \E p \in Procs, http \in OverlapHttp : ProcessRow(p, http, FALSE, FALSE)
    \/ \E p \in Procs : AdvanceWatermark(p)
    \/ \E p \in Procs : Return(p)

SpecOverlap == InitTally /\ [][NextOverlap]_vars

(***************************************************************************)
(* An append-only sheet, invocations one at a time and invoked again and   *)
(* again, none of them aborted: no row is typed between the two reads of   *)
(* the sheet, the sheet can be read, and the catch handler's write goes    *)
(* through                                                                 *)
(***************************************************************************)
LiveCells ==
    { <<Str("Title"), Str("Barcode")>>, <<Str("Widget"), Str("012345")>>,
      <<Empty, Str("012345")>>, <<Str(" "), Empty>> }

NextLive ==
    \/ \E cells \in LiveCells : inv[1].pc # "read" /\ AppendRow(cells)
    \/ NoneRunning /\ initializeTracking
    \/ NoneRunning /\ BeginPass(1)
    \/ ReadLastRow(1)
    \/ \E http \in HttpChoices, fail1 \in BOOLEAN : ProcessRow(1, http, fail1, FALSE)
    \/ AdvanceWatermark(1)
    \/ Return(1)

\* a step of checkForNewProducts: it is invoked, or the invocation goes on
PassStep ==
    \/ NoneRunning /\ BeginPass(1)
    \/ ReadLastRow(1)
    \/ \E http \in HttpChoices, fail1 \in BOOLEAN : ProcessRow(1, http, fail1, FALSE)
    \/ AdvanceWatermark(1)
    \/ Return(1)

\* the trigger fires again and again; an invocation that started runs on
Fairness == WF_vars(PassStep)

SpecLive == InitTally /\ [][NextLive]_vars /\ Fairness

(***************************************************************************)
(* mapRowToProduct called alone, on every row of up to MaxCols columns     *)
(* drawn from ColumnChoices                                                *)
(***************************************************************************)
Pairs(headers, values) == {<<Str(h), v>> : h \in headers, v \in values}

ColumnChoices ==
    Pairs({"Title", " NAME "}, {Str("Widget"), Str("Gadget"), Num(0)})
    \cup Pairs({"Title"}, {Empty})
    \cup Pairs({"body_html", "Brand", "Category", "Tags"}, {Str("Widget"), Str("Gadget")})
    \cup Pairs({"Published"}, {Bool(TRUE), Bool(FALSE), Str("yes"), Str("1")})
    \cup Pairs({"Status"}, {Str("published")})
    \cup Pairs({"SKU", "Product Code"}, {Str("W-1"), Num(0)})
    \cup Pairs({"Barcode"}, {Str("012345"), Num(0)})
    \cup Pairs({"UPC"}, {Str("012345")})
    \cup Pairs({"Price"}, {Str("9.99"), Num(0)})
    \cup Pairs({"MSRP", "Cost"}, {Str("9.99"), Str("12")})
    \cup Pairs({"Inventory"}, {Str("12abc"), Str("abc"), Num(5), Num(0)})
    \cup Pairs({"Stock"}, {Str("7")})
    \cup Pairs({"Weight"}, {Str("1.50kg"), Str("abc"), Num(0), Dec(25, 1)})
    \cup Pairs({"Weight Unit"}, {Str("kg"), Str("lb")})
    \cup Pairs({"Size", "Option1"}, {Str("M"), Str("L")})
    \cup Pairs({"Color", "option2"}, {Str("Red"), Str("Blue")})
    \cup Pairs({"Image"}, {Str("http://x/a.png"), Str(" http://x/b.png "), Num(0), Str("  ")})
    \cup Pairs({"Image URL"}, {Str("http://x/c.png")})
    \cup Pairs({"Notes"}, {Str("Widget")})

MapHeaders == [k \in 1..Len(mapIn) |-> mapIn[k][1]]
MapValues  == [k \in 1..Len(mapIn) |-> mapIn[k][2]]

InitMap ==
    /\ sheet = <<>>
    /\ properties = [lastProcessedRow |-> Undef]
    /\ inv = [p \in Procs |-> IdleInv]
    /\ covered = 0
    /\ historical = 0
    /\ tally = <<>>
    /\ \E n \in 1..MaxCols : mapIn \in [1..n -> ColumnChoices]
    /\ mapOut = NoMapOut
    /\ request = NoRequest
    /\ response = NoResponse

CallMapper ==
    /\ ~mapOut.done
    /\ mapOut' = [done |-> TRUE, product |-> mapRowToProduct(MapHeaders, MapValues)]
    /\ UNCHANGED <<sheet, properties, inv, covered, historical, tally, mapIn, request, response>>

NextMap == CallMapper

SpecMap == InitMap /\ [][NextMap]_vars

(***************************************************************************)
(* createShopifyProduct called alone, on every HTTP exchange of            *)
(* ExchangeChoices, beside the sync itself                                 *)
(***************************************************************************)
StatusCodes == {199, 200, 201, 299, 300, 422, 500}

ExchangeChoices ==
    { [throws |-> th, code |-> c, parses |-> pa, product |-> pr,
       id |-> IF pr THEN 7 ELSE 0, text |-> IF pr THEN "{product:{id:7}}" ELSE "{}"] :
         th \in BOOLEAN, c \in StatusCodes, pa \in BOOLEAN, pr \in BOOLEAN }

CallClient(http) ==
    /\ vars = <<<<>>, [lastProcessedRow |-> Undef], [p \in Procs |-> IdleInv], 0, 0, <<>>,
                NoMapIn, NoMapOut, NoRequest, NoResponse>>
    /\ request' = http
    /\ response' = [done |-> TRUE, result |-> createShopifyProduct(EmptyProduct, http)]
    /\ UNCHANGED <<sheet, properties, inv, covered, historical, tally, mapIn, mapOut>>

NextClient ==
    \/ ~response.done /\ Next
    \/ \E http \in ExchangeChoices : CallClient(http)

SpecClient == Init /\ [][NextClient]_vars

(***************************************************************************)
(* Properties                                                              *)
(***************************************************************************)
Watermark == ReadWatermark(properties)

\* the row indices lo+1 .. hi, ascending
RowRange(lo, hi) == [k \in 1..(hi - lo) |-> lo + k]

FoundNewRows(p) == inv[p].currentLastRow > inv[p].lastProcessedRow
StatusOf(r) == IF r \in 1..Len(sheet) THEN sheet[r].status.s ELSE ""

\* C1: after a pass that found new rows and ran to its end, the stored
\* watermark equals the currentLastRow that pass read, whatever the rows'
\* outcomes were.
C1_WatermarkIsCurrentLastRow ==
    \A p \in Procs :
        (inv[p].pc = "done" /\ FoundNewRows(p)) => Watermark = inv[p].currentLastRow

\* a finished pass over rows 2..3: row 2 synced, the outcome write of row 3
\* raised and was caught
C1_Witness ==
    /\ inv[1].pc = "done"
    /\ inv[1].lastProcessedRow = 1
    /\ inv[1].currentLastRow = 3
    /\ IsSynced(StatusOf(2))
    /\ inv[1].last.row = 3
    /\ Len(inv[1].last.writes) = 2
    /\ IsError(StatusOf(3))
    /\ Watermark = 3

\* C2 (as stated): over initializeTracking, resetTracking and passes, with the
\* sheet free to change, the stored watermark never decreases.
C2_NeverDecreases == [][ReadWatermark(properties') >= ReadWatermark(properties)]_vars

\* C2 (amended): the watermark never decreases over initializeTracking and
\* passes; resetTracking sets it to the current last row whatever it was (lower
\* when the sheet shrank); and a pass stores a watermark only once every row
\* between the old and the new value has been attempted, in order.
C2_DecreasesOnlyByReset ==
    [][ /\ ReadWatermark(properties') < ReadWatermark(properties)
            => (resetTracking /\ ReadWatermark(properties') = getLastDataRow(sheet))
        /\ resetTracking => ReadWatermark(properties') = getLastDataRow(sheet)
        /\ \A p \in Procs :
              (properties' # properties /\ inv'[p] # inv[p])
                  => /\ ReadWatermark(properties') = inv[p].currentLastRow
                     /\ inv[p].rows = RowRange(inv[p].lastProcessedRow, ReadWatermark(properties'))
      ]_vars

\* a pass that started from a stored watermark of 1 has attempted rows 2 and 3
\* and stored 3
C2_Witness ==
    /\ inv[1].pc = "done"
    /\ inv[1].lastProcessedRow = 1
    /\ inv[1].rows = <<2, 3>>
    /\ Watermark = 3
    /\ historical = 1

\* C3 (as stated): a pass that found new rows and is over, normally or not,
\* has attempted every row of (watermark, currentLastRow] exactly once, in
\* ascending order: no failure on a row keeps the later rows from being attempted.
C3_EveryRowAttempted ==
    \A p \in Procs :
        (inv[p].pc \in {"done", "aborted"} /\ FoundNewRows(p) /\ inv[p].last.row > 0)
            => inv[p].rows = RowRange(inv[p].lastProcessedRow, inv[p].currentLastRow)

\* C4: a pass never attempts (maps, sends, writes an outcome for) a row that a
\* completed pass has covered since the last resetTracking.
C4_NoRetryOfCoveredRows ==
    \A p \in Procs :
        inv[p].pc \in {"loop", "aborted"}
            => \A k \in 1..Len(inv[p].rows) : inv[p].rows[k] > covered

\* row 2 got an ERROR outcome from a completed pass; a later pass is at work on row 3
C4_Witness ==
    /\ inv[1].pc = "loop"
    /\ covered = 2
    /\ IsError(StatusOf(2))
    /\ inv[1].lastProcessedRow = 2
    /\ inv[1].rows = <<3>>

\* C5: initializeTracking stores the current last row when no watermark is
\* stored and changes nothing when one is; and no pass attempts a row that was
\* in the sheet when tracking began.
C5_InitializeOnlyWhenAbsent ==
    [][ /\ initializeTracking
            => IF properties.lastProcessedRow = Undef
               THEN ReadWatermark(properties') = getLastDataRow(sheet)
               ELSE properties' = properties
        /\ \A p \in Procs :
              (inv'[p].last # inv[p].last /\ inv'[p].last.row > 0)
                  => (inv'[p].last.row > historical /\ ~inv'[p].last.hist)
      ]_vars

\* tracking began on a sheet of two rows; a later pass has processed row 3 and
\* left row 2 without an outcome
C5_Witness ==
    /\ historical = 2
    /\ inv[1].pc = "done"
    /\ inv[1].lastProcessedRow = 2
    /\ inv[1].rows = <<3>>
    /\ StatusOf(2) = ""
    /\ StatusOf(3) # ""
    /\ Watermark = 3

\* C6: a pass that reads currentLastRow <= watermark ends at once: no row is
\* attempted (no remote call, no outcome), sheet and watermark stay as they were.
C6_NoNewRowsIsNoOp ==
    [][ \A p \in Procs :
          (inv'[p].pc = "done" /\ inv[p].pc # "done"
              /\ inv'[p].currentLastRow <= inv'[p].lastProcessedRow)
            => /\ inv[p].pc = "read"
               /\ sheet' = sheet
               /\ properties' = properties
               /\ inv'[p].rows = <<>>
               /\ inv'[p].last = NoAttempt
      ]_vars

\* a pass covered rows up to 3; the next pass, with nothing appended, found
\* nothing to do
C6_Witness ==
    /\ covered = 3
    /\ inv[1].pc = "done"
    /\ inv[1].lastProcessedRow = 3
    /\ inv[1].currentLastRow = 3
    /\ inv[1].rows = <<>>
    /\ Watermark = 3

\* every cell of the row is empty once trimmed
AllBlank(rowData) ==
    \A k \in 1..Len(rowData) : rowData[k].t = "undef" \/ Trim(ToString(rowData[k])) = ""

\* the row the invocation attempted last, as it stands in the sheet
LastRow(p) == sheet[inv[p].last.row]

\* C7: a row of the range whose cells are all empty after trimming gets no
\* outcome and no remote call, the step leaves the sheet as it was, and the row
\* lies at or below the watermark the pass stores.
C7_EmptyRowsSkippedAndCovered ==
    [][ \A p \in Procs :
          /\ (inv'[p].last # inv[p].last /\ inv'[p].last.row > 0
                 /\ AllBlank(RowValues(sheet[inv'[p].last.row])))
               => /\ inv'[p].last.empty
                  /\ inv'[p].last.writes = <<>>
                  /\ ~inv'[p].last.called
                  /\ sheet' = sheet
                  /\ inv'[p].pc = "loop"
          /\ (inv'[p].pc = "done" /\ inv[p].pc = "loop")
               => \A k \in 1..Len(inv[p].rows) : inv[p].rows[k] <= ReadWatermark(properties')
      ]_vars

\* the pass is over; the last row of its range was blank, has no outcome and
\* lies under the watermark
C7_Witness ==
    /\ inv[1].pc = "done"
    /\ inv[1].last.row = 3
    /\ inv[1].last.empty
    /\ sheet[3].cells = <<Str(" "), Empty>>
    /\ StatusOf(3) = ""
    /\ StatusOf(2) # ""
    /\ Watermark = 3

\* the title mapRowToProduct gives the row attempted last
LastTitle(p) == mapRowToProduct(sheet[1].cells, LastRow(p).cells).title

\* C8: a non-empty row whose mapped product has no truthy title is invalid:
\* the pass makes no remote call for it and writes an ERROR outcome (the cell
\* holds it whenever a write went through); a truthy title makes the row valid.
C8_TitleDecidesValidity ==
    \A p \in Procs :
        (inv[p].pc # "idle" /\ inv[p].last.row > 0 /\ ~inv[p].last.empty)
            => IF Truthy(LastTitle(p))
               THEN inv[p].last.valid /\ inv[p].last.called
               ELSE /\ ~inv[p].last.valid
                    /\ ~inv[p].last.called
                    /\ inv[p].last.http = NoRequest
                    /\ inv[p].last.writes # <<>>
                    /\ \A k \in 1..Len(inv[p].last.writes) : IsError(inv[p].last.writes[k])
                    /\ inv[p].last.stored # <<>> => IsError(StatusOf(inv[p].last.row))

\* a row with an empty title and a barcode was given an ERROR outcome without a call
C8_Witness ==
    /\ inv[1].pc = "done"
    /\ inv[1].last.row = 2
    /\ sheet[1].cells = <<Str("Title"), Str("Barcode")>>
    /\ sheet[2].cells = <<Empty, Str("012345")>>
    /\ ~inv[1].last.called
    /\ IsError(StatusOf(2))

\* what the exchange amounts to: an answer that parses, 2xx, with a product
Is2xxWithProduct(http) ==
    ~http.throws /\ http.parses /\ http.code \in 200..299 /\ http.product

\* C9: createShopifyProduct reports success exactly on a 2xx answer carrying a
\* product and returns every other result as a failure value with its error
\* text; for a row it was called for, the try block writes 'Synced' exactly
\* when it reported success and 'ERROR' otherwise.
C9_SuccessIff2xxWithProduct ==
    /\ response.done
         => /\ response.result.success <=> Is2xxWithProduct(request)
            /\ response.result.success => response.result.id = request.id
            /\ ~response.result.success => response.result.error # ""
    /\ \A p \in Procs :
         inv[p].last.called
            => /\ inv[p].last.success <=> Is2xxWithProduct(inv[p].last.http)
               /\ inv[p].last.success <=> IsSynced(inv[p].last.writes[1])
               /\ ~inv[p].last.success => IsError(inv[p].last.writes[1])
               /\ (inv[p].last.stored # <<>> /\ Len(inv[p].last.writes) = 1)
                     => (IsSynced(StatusOf(inv[p].last.row)) <=> inv[p].last.success)

\* row 2 was created and marked Synced, row 3 was refused with 422 and marked ERROR
C9_Witness ==
    /\ inv[1].pc = "done"
    /\ inv[1].rows = <<2, 3>>
    /\ IsSynced(StatusOf(2))
    /\ inv[1].last.called
    /\ inv[1].last.http.code = 422
    /\ ~inv[1].last.success
    /\ IsError(StatusOf(3))

(***************************************************************************)
(* The alias table, stated apart from the mapper                           *)
(***************************************************************************)
ScalarFields ==
    {"title", "body_html", "vendor", "product_type", "tags", "published", "sku",
     "barcode", "price", "compare_at_price", "cost", "inventory_quantity", "weight",
     "weight_unit", "option1", "option2"}

AliasesOf(f) ==
    CASE f = "title"              -> {"title", "product name", "name"}
      [] f = "body_html"          -> {"description", "body", "body_html"}
      [] f = "vendor"             -> {"vendor", "brand", "manufacturer"}
      [] f = "product_type"       -> {"product type", "type", "category"}
      [] f = "tags"               -> {"tags", "keywords"}
      [] f = "published"          -> {"published", "status"}
      [] f = "sku"                -> {"sku", "product code"}
      [] f = "barcode"            -> {"barcode", "upc", "ean", "isbn", "gtin"}
      [] f = "price"              -> {"price", "retail price"}
      [] f = "compare_at_price"   -> {"compare at price", "compare price", "msrp"}
      [] f = "cost"               -> {"cost", "cost price"}
      [] f = "inventory_quantity" -> {"inventory", "quantity", "stock"}
      [] f = "weight"             -> {"weight"}
      [] f = "weight_unit"        -> {"weight unit"}
      [] f = "option1"            -> {"option1", "size"}
      [] f = "option2"            -> {"option2", "color"}
      [] f = "images"             -> {"image", "image url", "product image"}

\* what a cell becomes in the field
Converted(f, v) ==
    CASE f \in {"title", "body_html", "vendor", "product_type", "tags", "weight_unit"} -> v
      [] f = "published"          -> PublishedValue(v)
      [] f = "inventory_quantity" -> OrZero(ParseInt(v))
      [] f = "weight"             -> OrZero(ParseFloat(v))
      [] OTHER                    -> Str(ToString(v))

FieldValue(product, f) ==
    CASE f = "title"              -> product.title
      [] f = "body_html"          -> product.body_html
      [] f = "vendor"             -> product.vendor
      [] f = "product_type"       -> product.product_type
      [] f = "tags"               -> product.tags
      [] f = "published"          -> product.published
      [] f = "sku"                -> product.variant.sku
      [] f = "barcode"            -> product.variant.barcode
      [] f = "price"              -> product.variant.price
      [] f = "compare_at_price"   -> product.variant.compare_at_price
      [] f = "cost"               -> product.variant.cost
      [] f = "inventory_quantity" -> product.variant.inventory_quantity
      [] f = "weight"             -> product.variant.weight
      [] f = "weight_unit"        -> product.variant.weight_unit
      [] f = "option1"            -> product.variant.option1
      [] f = "option2"            -> product.variant.option2

\* a cell that is not empty: truthy, or the number 0
Significant(v) == Truthy(v) \/ v = Num(0)

\* the positions of the non-empty columns whose header is an alias of f
Cols(f) ==
    {k \in 1..Len(mapIn) : Trim(ToLowerCase(ToString(mapIn[k][1]))) \in AliasesOf(f)
                            /\ Significant(mapIn[k][2])}

First(S) == CHOOSE x \in S : \A y \in S : x <= y
Last(S)  == CHOOSE x \in S : \A y \in S : y <= x
ValueAt(k) == mapIn[k][2]

\* the last alias column of f decides f; without such a column f stays unset
LastColumnWins(f) ==
    FieldValue(mapOut.product, f) =
        IF Cols(f) = {} THEN Undef ELSE Converted(f, ValueAt(Last(Cols(f))))

Group(name, value) == [name |-> name, values |-> <<value>>]

\* the options sequence with each group taken from the column Pick chooses
OptionsFrom(Pick(_), sizeGiven) ==
    LET size == Group("Size", IF sizeGiven THEN ToString(ValueAt(Pick(Cols("option1"))))
                              ELSE "Default")
    IN  IF Cols("option1") = {} /\ Cols("option2") = {} THEN <<>>
        ELSE IF Cols("option2") = {} THEN <<size>>
        ELSE <<size, Group("Color", ToString(ValueAt(Pick(Cols("option2")))))>>

ImagesFrom(cols) ==
    IF cols = {} THEN <<>> ELSE <<[src |-> Trim(ToString(ValueAt(Last(cols))))]>>

\* the image columns whose value is truthy and not blank once trimmed
FilledImageCols == {k \in Cols("images") : Truthy(ValueAt(k)) /\ Trim(ToString(ValueAt(k))) # ""}

\* C10 (as stated): for every canonical field the last non-empty alias column
\* gives the final value, the groups of options and the images included.
C10_LastWriteWinsEverywhere ==
    mapOut.done
        => /\ \A f \in ScalarFields : LastColumnWins(f)
           /\ mapOut.product.options = OptionsFrom(Last, Cols("option1") # {})
           /\ mapOut.product.images = ImagesFrom(Cols("images"))

\* C10 (amended): the last non-empty alias column gives the final value of
\* every scalar and variant field (option1 and option2 included); each group
\* of options keeps the value of the first column that seeded it, the Size
\* group being "Default" unless a size column comes before every color column;
\* images holds the last image column whose value is truthy and not blank.
C10_LastWriteWinsButOptions ==
    mapOut.done
        => /\ \A f \in ScalarFields : LastColumnWins(f)
           /\ mapOut.product.options =
                 OptionsFrom(First, /\ Cols("option1") # {}
                                    /\ \A c \in Cols("option2") : First(Cols("option1")) < c)
           /\ mapOut.product.images = ImagesFrom(FilledImageCols)

\* two size columns: option1 takes the later value, the Size group keeps the earlier
C10_Witness ==
    /\ mapOut.done
    /\ mapIn = << <<Str("Size"), Str("M")>>, <<Str("Option1"), Str("L")>> >>
    /\ mapOut.product.variant.option1 = Str("L")
    /\ mapOut.product.options = <<Group("Size", "M")>>

NormalHeader(k) == Trim(ToLowerCase(ToString(mapIn[k][1])))

\* column k is the last column of the row under an alias of f
LastUnder(f, k) ==
    /\ NormalHeader(k) \in AliasesOf(f)
    /\ \A j \in (k + 1)..Len(mapIn) : NormalHeader(j) \notin AliasesOf(f)

\* C11 (as stated): a cell holding 0 under a recognized alias is mapped into
\* its field, the image aliases included.
C11_ZeroIsMappedEverywhere ==
    mapOut.done
        => \A k \in 1..Len(mapIn) :
              ValueAt(k) = Num(0)
                 => /\ \A f \in ScalarFields :
                         LastUnder(f, k) => FieldValue(mapOut.product, f) = Converted(f, Num(0))
                    /\ LastUnder("images", k) => mapOut.product.images = <<[src |-> "0"]>>

\* C12 (as stated): a non-empty cell under published/status makes published
\* true for boolean true, "true", "yes", "published" and false for anything else.
C12_PublishedTrueOrFalse ==
    mapOut.done
        => \A k \in 1..Len(mapIn) :
              (LastUnder("published", k) /\ ValueAt(k) # Empty)
                 => mapOut.product.published =
                       Bool(ValueAt(k) \in {Bool(TRUE), Str("true"), Str("yes"), Str("published")})

\* the product after the first k columns
ProductAfter(k) == MapColumns(MapHeaders, MapValues, k)

\* C13: options never holds more than 2 groups; once a non-empty option2/color
\* column is mapped it holds exactly 2, Size first and Color second; a size
\* column before the color column gives Size its value, a color column before
\* any size column gives Size the value "Default"; option1 and option2 hold
\* the cells' strings.
C13_OptionsAtMostTwo ==
    mapOut.done
        => /\ \A k \in 0..Len(mapIn) : Len(ProductAfter(k).options) <= 2
           /\ \A k \in 1..Len(mapIn) :
                 (NormalHeader(k) \in AliasesOf("option2") /\ Significant(ValueAt(k)))
                    => /\ Len(ProductAfter(k).options) = 2
                       /\ ProductAfter(k).options[1].name = "Size"
                       /\ ProductAfter(k).options[2].name = "Color"
                       /\ ProductAfter(k).variant.option2 = Str(ToString(ValueAt(k)))
                       /\ (\A j \in 1..(k - 1) : NormalHeader(j) \notin AliasesOf("option1"))
                             => ProductAfter(k).options[1].values = <<"Default">>
           /\ (/\ Len(mapIn) = 2
               /\ NormalHeader(1) = "size" /\ NormalHeader(2) = "color")
                 => /\ mapOut.product.options =
                          <<Group("Size", ToString(ValueAt(1))), Group("Color", ToString(ValueAt(2)))>>
                    /\ mapOut.product.variant.option1 = Str(ToString(ValueAt(1)))
                    /\ mapOut.product.variant.option2 = Str(ToString(ValueAt(2)))

\* a color column ahead of the size column: Size is seeded with "Default"
C13_Witness ==
    /\ mapOut.done
    /\ mapIn = << <<Str("Color"), Str("Red")>>, <<Str("Size"), Str("M")>> >>
    /\ mapOut.product.options = <<Group("Size", "Default"), Group("Color", "Red")>>
    /\ mapOut.product.variant.option1 = Str("M")

\* a JavaScript number that is not NaN
IsNumber(x) == x.t = "num"

C15_AbortKeepsWatermark ==
    [][ \A p \in Procs :
          /\ (inv'[p].pc = "aborted" /\ inv[p].pc # "aborted")
                => /\ properties' = properties
                   /\ sheet' = sheet
                   /\ ReadWatermark(properties') = inv'[p].lastProcessedRow
                   /\ inv'[p].rows = RowRange(inv'[p].lastProcessedRow,
                                              inv'[p].lastProcessedRow + Len(inv'[p].rows))
          /\ (inv[p].pc = "aborted" /\ inv'[p] # inv[p])
                => (inv'[p] = IdleInv /\ sheet' = sheet /\ properties' = properties)
          /\ (inv[p].pc = "idle" /\ inv'[p].pc = "read")
                => inv'[p].lastProcessedRow = ReadWatermark(properties)
          /\ (inv[p].pc = "read" /\ inv'[p].pc = "loop")
                => inv'[p].rowIndex = inv[p].lastProcessedRow + 1
      ]_vars

\* row 2 was created remotely by a pass that then aborted; the next pass, from
\* the same watermark 1, has created it a second time
C15_Witness ==
    /\ inv[1].pc = "loop"
    /\ inv[1].lastProcessedRow = 1
    /\ inv[1].last.row = 2
    /\ inv[1].last.success
    /\ tally[2].creates = 2
    /\ Watermark = 1

Started(p) == inv[p].pc \in {"loop", "done", "aborted"}

\* one of the two sequences is the beginning of the other
SameBeginning(a, b) ==
    \A k \in 1..(IF Len(a) < Len(b) THEN Len(a) ELSE Len(b)) : a[k] = b[k]

\* C16: nothing keeps two invocations apart.  Each starts at the watermark it
\* read + 1 whatever the other has done, so two invocations that read the same
\* watermark attempt the same rows; and each stores its own currentLastRow at
\* its end without looking at the stored value.
C16_OverlapUnguarded ==
    [][ /\ \A p \in Procs :
             /\ (inv[p].pc = "read" /\ inv'[p].pc = "loop")
                   => inv'[p].rowIndex = inv[p].lastProcessedRow + 1
             /\ (inv[p].pc = "loop" /\ inv'[p].pc = "done")
                   => ReadWatermark(properties') = inv[p].currentLastRow
        /\ \A p, q \in Procs :
             (p # q /\ inv'[p].pc \in {"loop", "done"} /\ inv'[q].pc \in {"loop", "done"}
                    /\ inv'[p].lastProcessedRow = inv'[q].lastProcessedRow)
                => SameBeginning(inv'[p].rows, inv'[q].rows)
      ]_vars

\* both invocations read watermark 1; row 2 was created remotely twice and its
\* outcome written twice; the second invocation stored 3, then the first
\* stored 2 over it
C16_Witness ==
    /\ inv[1].pc = "done"
    /\ inv[1].lastProcessedRow = 1
    /\ inv[1].currentLastRow = 2
    /\ inv[2].pc = "done"
    /\ inv[2].lastProcessedRow = 1
    /\ inv[2].currentLastRow = 3
    /\ tally[2].creates = 2
    /\ tally[2].writes = 2
    /\ covered = 3
    /\ Watermark = 2

\* C17: a step of a pass leaves the number of rows and every product-data
\* cell as they were, changes the outcome cell of no row outside
\* (watermark read, currentLastRow], and changes no property but lastProcessedRow.
C17_PassWritesOnlyOutcomesInRange ==
    [][ \A p \in Procs :
          (inv'[p] # inv[p])
             => /\ Len(sheet') = Len(sheet)
                /\ \A r \in 1..Len(sheet) :
                      /\ sheet'[r].cells = sheet[r].cells
                      /\ sheet'[r].status # sheet[r].status
                            => (inv'[p].lastProcessedRow < r /\ r <= inv'[p].currentLastRow)
                /\ DOMAIN properties' = {"lastProcessedRow"}
                /\ properties' # properties => inv'[p].pc = "done"
      ]_vars

\* a pass over row 2 alone: the header row at the watermark and row 3, typed
\* while the pass ran, have no outcome; the data cells of row 2 are as typed
C17_Witness ==
    /\ inv[1].pc = "done"
    /\ inv[1].lastProcessedRow = 1
    /\ inv[1].currentLastRow = 2
    /\ Len(sheet) = 3
    /\ StatusOf(1) = ""
    /\ IsSynced(StatusOf(2))
    /\ sheet[2].cells = <<Str("Widget"), Str("012345")>>
    /\ StatusOf(3) = ""
    /\ Watermark = 2

\* C18 (as stated): no pass attempts row 1, the header row.
C18_HeaderRowNeverData ==
    \A p \in Procs : inv[p].last.row # 1 /\ (\A k \in 1..Len(inv[p].rows) : inv[p].rows[k] # 1)

\* row r was typed after tracking began and is not blank
AppendedRow(r) ==
    /\ properties.lastProcessedRow # Undef
    /\ r <= Len(sheet)
    /\ r > historical
    /\ ~AllBlank(sheet[r].cells)

HasOutcome(r) == IsSynced(StatusOf(r)) \/ IsError(StatusOf(r))

\* C19: on an append-only sheet with invocations one at a time, invoked again
\* and again and never aborted, every non-blank row typed after tracking began
\* eventually has an outcome, Synced or ERROR; no row gets a second outcome;
\* and every such row at or below the stored watermark has been given its
\* outcome: the watermark never passes over a row that was not attempted.
C19_EveryAppendedRowGetsOneOutcome ==
    /\ [](\A r \in 1..MaxRows :
            /\ tally[r].writes <= 1
            /\ (AppendedRow(r) /\ r <= Watermark)
                  => (tally[r].writes = 1 /\ HasOutcome(r)))
    /\ \A r \in 1..MaxRows : AppendedRow(r) ~> HasOutcome(r)

\* tracking began on the header row; row 2 was covered by one pass and row 3,
\* typed later, by the next; each has its one outcome
C19_Witness ==
    /\ historical = 1
    /\ inv[1].pc = "done"
    /\ inv[1].lastProcessedRow = 2
    /\ inv[1].rows = <<3>>
    /\ tally[2].writes = 1
    /\ tally[3].writes = 1
    /\ HasOutcome(2)
    /\ HasOutcome(3)
    /\ Watermark = 3

=============================================================================
